---- MODULE Spec2Model ----
(***************************************************************************)
(* Model of package reachable (pbnjay/reachable): the Checker poll loop,   *)
(* its Start/Stop lifecycle on an unbuffered cancellation channel, the     *)
(* two-stage probe, and the package-level singleton facade with the        *)
(* NetworkIsReachable flag.                                                *)
(*                                                                         *)
(* Goroutines running Checker.run are the records of `loops`; calls of     *)
(* Checker.Stop / Stop that have been entered are the records of `calls`.  *)
(* A Go channel is an index into `chans` (0 is the nil channel).  Strings  *)
(* are sequences of one-character strings.  An unrecovered panic ends the  *)
(* process: once `panicked` holds no action is enabled.                    *)
(***************************************************************************)
EXTENDS Integers, Sequences, FiniteSets

\* ------------------------------------------------------------------ bounds
MaxStarts == 2      \* calls of Checker.Start over all Checkers
MaxStops  == 2      \* calls of Checker.Stop over all Checkers
MaxTicks  == 3      \* ticks delivered by all tickers

\* --------------------------------------------------------------- constants
DefaultInterval == 60            \* time.Minute, in seconds

Checkers == {"singleton", "c1"}  \* the package singleton and one user Checker

Host     == <<"h">>                       \* "h"
HostPort == <<"h", ":", "4", "4", "3">>   \* "h:443"
Targets  == {Host, HostPort}

Flags == [lo : BOOLEAN, up : BOOLEAN]     \* net.FlagLoopback, net.FlagUp
IfaceLists ==
    { <<>>,
      << [lo |-> TRUE,  up |-> TRUE] >>,
      << [lo |-> TRUE,  up |-> TRUE], [lo |-> FALSE, up |-> FALSE] >>,
      << [lo |-> TRUE,  up |-> TRUE], [lo |-> FALSE, up |-> TRUE] >>,
      << [lo |-> FALSE, up |-> TRUE] >> }

VARIABLES
    Hostport,            \* c.Hostport
    Hostname,            \* c.Hostname (the Checker of unnamed/part_000)
    Port,                \* c.Port     (the Checker of unnamed/part_000)
    Interval,            \* c.Interval (0: unset)
    Notifier,            \* c.Notifier: "nil", "flag" (the facade's closure), "user"
    quit,                \* c.quit: index into chans, 0 for nil
    chans,               \* the channels made so far: [closed, of, closer]
    NetworkIsReachable,  \* the package-level flag
    loops,               \* goroutines spawned by `go c.run()`
    calls,               \* entered calls of Stop
    life,                \* per Checker, where its caller is in the Start/Stop contract
    nticks,              \* ticks delivered so far
    panicked             \* an unrecovered panic has ended the process

vars == <<Hostport, Hostname, Port, Interval, Notifier, quit, chans, NetworkIsReachable,
          loops, calls, life, nticks, panicked>>

\* ----------------------------------------------------------- pure helpers

\* strings.Contains(s, ":")
Contains(s, ch) == \E i \in 1..Len(s) : s[i] = ch

\* canConnect's normalisation of c.Hostport
NormaliseNoCheck(s) == s \o <<":", "8", "0">>
Normalise(s) == IF ~Contains(s, ":") THEN s \o <<":", "8", "0">> ELSE s

\* hasInterfaceUp's loop over the enumerated interfaces
RECURSIVE AnyUp(_, _)
AnyUp(ifaces, i) ==
    IF i > Len(ifaces) THEN FALSE
    ELSE IF ifaces[i].lo THEN AnyUp(ifaces, i + 1)
    ELSE IF ifaces[i].up THEN TRUE
    ELSE AnyUp(ifaces, i + 1)

\* an enumeration whose error is not looked at
hasInterfaceUpIgnoringErr(err, ifaces) == AnyUp(ifaces, 1)

hasInterfaceUp(err, ifaces) == IF err THEN FALSE ELSE AnyUp(ifaces, 1)

\* the address net.DialTimeout connects to: split at the last colon
LastColon(s) == CHOOSE i \in 0..Len(s) :
                    /\ (i > 0 => s[i] = ":")
                    /\ \A j \in (i+1)..Len(s) : s[j] # ":"
DialHost(s) == SubSeq(s, 1, LastColon(s) - 1)
DialPort(s) == SubSeq(s, LastColon(s) + 1, Len(s))

\* the history kept of a run (outcomes, notifier calls, dials) holds its
\* first MaxTicks entries
Log(sq, x) == IF Len(sq) < MaxTicks THEN Append(sq, x) ELSE sq

\* -------------------------------------------------------------------- Init
NewLoop(c, by, ch) ==
    [ c             |-> c,        \* the receiver of run()
      pc            |-> "go",     \* spawned, not yet running
      currentStatus |-> -1,
      isActive      |-> FALSE,
      q             |-> IF c = by THEN ch ELSE quit[c],
                                  \* the value this goroutine last loaded from c.quit
      tick          |-> FALSE,    \* a tick is buffered in t.C
      ticker        |-> "none",   \* "none", "on", "stopped"
      by            |-> by,       \* the Checker whose Start spawned the goroutine
      ch0           |-> ch,       \* the channel made by that Start
      prev          |-> IF quit[by] # 0
                           /\ \A k \in 1..Len(calls) : calls[k].ch # quit[by]
                        THEN quit[by] ELSE 0,
                                  \* the channel that Start overwrote with no
                                  \* Stop entered since it was made, else 0
      cfg           |-> Hostport'[c],  \* c.Hostport when spawned
      outs          |-> <<>>,     \* the outcomes of the probes of this run
      cycles        |-> <<>>,     \* per probe: [err, up, dial], what the two
                                  \* stages of the probe met
      notes         |-> <<>>,     \* the notifier calls made: [at, val]
      dials         |-> <<>> ]    \* the addresses dialled

Init ==
    /\ \E t \in Targets :
         /\ Hostport = [c \in Checkers |-> IF c = "singleton" THEN <<>> ELSE t]
         /\ Hostname = [c \in Checkers |-> IF c = "singleton" THEN <<>>
                                            ELSE IF Contains(t, ":")
                                                 THEN DialHost(t) ELSE t]
         /\ Port = [c \in Checkers |->
                      IF c = "singleton" \/ ~Contains(t, ":") THEN <<>>
                      ELSE <<":">> \o DialPort(t)]
    /\ Interval = [c \in Checkers |-> 0]
    /\ Notifier = [c \in Checkers |-> IF c = "singleton" THEN "nil" ELSE "user"]
    /\ quit = [c \in Checkers |-> 0]
    /\ chans = <<>>
    /\ NetworkIsReachable = TRUE
    /\ loops = <<>>
    /\ calls = <<>>
    /\ life = [c \in Checkers |-> "NotStarted"]
    /\ nticks = 0
    /\ panicked = FALSE

\* ------------------------------------------------- the Start/Stop contract
\* spec 4.2: NotStarted, Running, Stopped; "Stopping" while the one Stop is
\* blocked in its send, "Misused" once the caller has left the contract.
OnStart(s)  == IF s \in {"NotStarted", "Stopped"} THEN "Running" ELSE "Misused"
OnStop(s)   == IF s = "Running" THEN "Stopping" ELSE "Misused"
OnReturn(s) == IF s = "Stopping" THEN "Stopped" ELSE s

\* ------------------------------------------------------------ Start / Stop

\* make(chan struct{}) in c.Start(): open; `of` and `closer` record the
\* Checker it was made for and the run that closed it (0: none)
MakeChan(c) == [closed |-> FALSE, of |-> c, closer |-> 0]

\* `go c.run()`: the receiver of the spawned run
SpawnSingleton(c) == "singleton"
Spawned(c) == c

\* a Start that closes the channel it overwrites
CheckerStartClosing(c) ==
    /\ chans' = Append(IF quit[c] = 0 THEN chans
                       ELSE [chans EXCEPT ![quit[c]].closed = TRUE],
                       MakeChan(c))
    /\ quit'  = [quit EXCEPT ![c] = Len(chans) + 1]
    /\ loops' = Append(loops, NewLoop(c, c, Len(chans) + 1))
    /\ life'  = [life EXCEPT ![c] = OnStart(@)]

\* func (c *Checker) Start()
CheckerStart(c) ==
    /\ chans' = Append(chans, MakeChan(c))
    /\ quit'  = [quit EXCEPT ![c] = Len(chans) + 1]
    /\ loops' = Append(loops, NewLoop(Spawned(c), c, Len(chans) + 1))
    /\ life'  = [life EXCEPT ![c] = OnStart(@)]

\* a caller's c.Start() on a Checker of its own
CallCheckerStart(c) ==
    /\ ~panicked
    /\ Len(loops) < MaxStarts
    /\ UNCHANGED <<Hostport, Hostname, Port, Interval, Notifier>>
    /\ CheckerStart(c)
    /\ UNCHANGED <<NetworkIsReachable, calls, nticks, panicked>>

\* func Start(hostname string), called as example/main.go does: never while
\* the singleton is running
Start(hostname) ==
    /\ ~panicked
    /\ Len(loops) < MaxStarts
    /\ life["singleton"] \in {"NotStarted", "Stopped"}
    /\ Hostport' = [Hostport EXCEPT !["singleton"] = hostname]
    /\ Interval' = [Interval EXCEPT !["singleton"] = DefaultInterval]
    /\ Notifier' = [Notifier EXCEPT !["singleton"] = "flag"]
    /\ CheckerStart("singleton")
    /\ UNCHANGED <<Hostname, Port, NetworkIsReachable, calls, nticks, panicked>>

\* a Stop whose send does not wait for the loop (a buffered channel)
CheckerStopBuffered(c, facade) ==
    /\ calls' = Append(calls, [c |-> c, ch |-> quit[c], facade |-> facade,
                               pc |-> IF facade THEN "reset" ELSE "returned"])
    /\ life'  = [life EXCEPT ![c] = IF facade THEN OnStop(@)
                                    ELSE OnReturn(OnStop(@))]

\* func (c *Checker) Stop(): the caller has evaluated c.quit and is at the send
CheckerStop(c, facade) ==
    /\ calls' = Append(calls, [c |-> c, ch |-> quit[c], facade |-> facade,
                               pc |-> "send"])
    /\ life'  = [life EXCEPT ![c] = OnStop(@)]

CallCheckerStop(c) ==
    /\ ~panicked
    /\ Len(calls) < MaxStops
    /\ CheckerStop(c, FALSE)
    /\ UNCHANGED <<Hostport, Hostname, Port, Interval, Notifier, quit, chans,
                   NetworkIsReachable, loops, nticks, panicked>>

\* func Stop(), entered: singleton.Stop() is at its send
Stop ==
    /\ ~panicked
    /\ Len(calls) < MaxStops
    /\ life["singleton"] = "Running"
    /\ CheckerStop("singleton", TRUE)
    /\ UNCHANGED <<Hostport, Hostname, Port, Interval, Notifier, quit, chans,
                   NetworkIsReachable, loops, nticks, panicked>>

\* the value Stop leaves in the flag
KeepFlag == NetworkIsReachable
ResetFlag == TRUE

\* func Stop(), after singleton.Stop() returned: NetworkIsReachable = true
StopReset(k) ==
    /\ ~panicked
    /\ calls[k].pc = "reset"
    /\ NetworkIsReachable' = ResetFlag
    /\ calls' = [calls EXCEPT ![k].pc = "returned"]
    /\ life'  = [life EXCEPT ![calls[k].c] = OnReturn(@)]
    /\ UNCHANGED <<Hostport, Hostname, Port, Interval, Notifier, quit, chans, loops, nticks,
                   panicked>>

\* a send that panics on a nil channel as on a closed one
SendPanicNil(k) ==
    /\ ~panicked
    /\ calls[k].pc = "send"
    /\ (calls[k].ch = 0 \/ chans[calls[k].ch].closed)
    /\ calls' = [calls EXCEPT ![k].pc = "panic"]
    /\ panicked' = TRUE
    /\ UNCHANGED <<Hostport, Hostname, Port, Interval, Notifier, quit, chans,
                   NetworkIsReachable, loops, life, nticks>>

\* a send that returns when it finds the channel closed
SendOnClosedReturns(k) ==
    /\ ~panicked
    /\ calls[k].pc = "send"
    /\ calls[k].ch # 0
    /\ chans[calls[k].ch].closed
    /\ calls' = [calls EXCEPT ![k].pc = "returned"]
    /\ UNCHANGED <<Hostport, Hostname, Port, Interval, Notifier, quit, chans,
                   NetworkIsReachable, loops, life, nticks, panicked>>

\* `c.quit <- struct{}{}` on a closed channel panics, also when the channel
\* is closed while the sender is blocked
SendPanic(k) ==
    /\ ~panicked
    /\ calls[k].pc = "send"
    /\ calls[k].ch # 0
    /\ chans[calls[k].ch].closed
    /\ calls' = [calls EXCEPT ![k].pc = "panic"]
    /\ panicked' = TRUE
    /\ UNCHANGED <<Hostport, Hostname, Port, Interval, Notifier, quit, chans,
                   NetworkIsReachable, loops, life, nticks>>

\* ------------------------------------------------------- the poll loop: run

\* A load of c.quit by a run.  Start's store to c.quit is not synchronised
\* with the loads of a run that is already going, so such a load yields the
\* value this goroutine saw before or one stored since.
LoadQuit(l) ==
    {loops[l].q} \cup {ch \in 1..Len(chans) : /\ chans[ch].of = loops[l].c
                                              /\ ch > loops[l].q}

\* currentStatus := -1
StatusDown == 0
StatusUnknown == -1

\* a run that probes once before it waits for its first tick
RunInitProbing(l) ==
    /\ ~panicked
    /\ loops[l].pc = "go"
    /\ Interval' = [Interval EXCEPT ![loops[l].c] =
                        IF @ <= 0 THEN DefaultInterval ELSE @]
    /\ loops' = [loops EXCEPT ![l].pc = "probe",
                               ![l].currentStatus = StatusUnknown,
                               ![l].ticker = "on"]
    /\ UNCHANGED <<Hostport, Hostname, Port, Notifier, quit, chans, NetworkIsReachable, calls,
                   life, nticks, panicked>>

\* run() up to its first select: currentStatus := -1, the Interval default,
\* time.NewTicker, and the first evaluation of `<-c.quit`
RunInit(l) ==
    /\ ~panicked
    /\ loops[l].pc = "go"
    /\ Interval' = [Interval EXCEPT ![loops[l].c] =
                        IF @ <= 0 THEN DefaultInterval ELSE @]
    /\ \E ch \in LoadQuit(l) :
         loops' = [loops EXCEPT ![l].pc = "select",
                                ![l].currentStatus = StatusUnknown,
                                ![l].ticker = "on", ![l].q = ch]
    /\ UNCHANGED <<Hostport, Hostname, Port, Notifier, quit, chans, NetworkIsReachable, calls,
                   life, nticks, panicked>>

\* the runtime delivers a tick into t.C (buffer of one; a tick that finds
\* the buffer full is dropped)
Tick(l) ==
    /\ ~panicked
    /\ loops[l].ticker = "on"
    /\ ~loops[l].tick
    /\ nticks < MaxTicks
    /\ loops' = [loops EXCEPT ![l].tick = TRUE]
    /\ nticks' = nticks + 1
    /\ UNCHANGED <<Hostport, Hostname, Port, Interval, Notifier, quit, chans,
                   NetworkIsReachable, calls, life, panicked>>

\* select, case <-t.C
RecvTick(l) ==
    /\ ~panicked
    /\ loops[l].pc = "select"
    /\ loops[l].tick
    /\ loops' = [loops EXCEPT ![l].tick = FALSE, ![l].pc = "probe"]
    /\ UNCHANGED <<Hostport, Hostname, Port, Interval, Notifier, quit, chans,
                   NetworkIsReachable, calls, life, nticks, panicked>>

\* select chooses among the ready cases: a pending tick does not keep the
\* quit case from being taken
QuitOnlyWhenNoTick(l) == ~loops[l].tick
QuitMayBeTaken(l) == TRUE

\* where run continues after `case <-c.quit`: t.Stop(); close(c.quit); return
ContinueLoop == "select"
AfterQuit == "close"

\* a cancellation that is also observed in the middle of a probe
RecvQuitPreempt(l, k) ==
    /\ ~panicked
    /\ loops[l].pc \in {"select", "probe"}
    /\ calls[k].pc = "send"
    /\ calls[k].ch = loops[l].q
    /\ loops[l].q # 0
    /\ ~chans[loops[l].q].closed
    /\ loops' = [loops EXCEPT ![l].pc = AfterQuit, ![l].ticker = "stopped"]
    /\ calls' = [calls EXCEPT ![k].pc =
                     IF calls[k].facade THEN "reset" ELSE "returned"]
    /\ life'  = IF calls[k].facade THEN life
                ELSE [life EXCEPT ![calls[k].c] = OnReturn(@)]
    /\ UNCHANGED <<Hostport, Hostname, Port, Interval, Notifier, quit, chans,
                   NetworkIsReachable, nticks, panicked>>

\* select, case <-c.quit, from a Stop blocked in its send: the send returns;
\* then t.Stop()
RecvQuit(l, k) ==
    /\ ~panicked
    /\ loops[l].pc = "select"
    /\ QuitMayBeTaken(l)
    /\ calls[k].pc = "send"
    /\ calls[k].ch = loops[l].q
    /\ loops[l].q # 0
    /\ ~chans[loops[l].q].closed
    /\ loops' = [loops EXCEPT ![l].pc = AfterQuit, ![l].ticker = "stopped"]
    /\ calls' = [calls EXCEPT ![k].pc =
                     IF calls[k].facade THEN "reset" ELSE "returned"]
    /\ life'  = IF calls[k].facade THEN life
                ELSE [life EXCEPT ![calls[k].c] = OnReturn(@)]
    /\ UNCHANGED <<Hostport, Hostname, Port, Interval, Notifier, quit, chans,
                   NetworkIsReachable, nticks, panicked>>

\* select, case <-c.quit, on a closed channel: the receive does not block;
\* then t.Stop()
RecvClosed(l) ==
    /\ ~panicked
    /\ loops[l].pc = "select"
    /\ QuitMayBeTaken(l)
    /\ loops[l].q # 0
    /\ chans[loops[l].q].closed
    /\ loops' = [loops EXCEPT ![l].pc = AfterQuit, ![l].ticker = "stopped"]
    /\ UNCHANGED <<Hostport, Hostname, Port, Interval, Notifier, quit, chans,
                   NetworkIsReachable, calls, life, nticks, panicked>>

\* close(c.quit); return.  Closing a closed (or nil) channel panics.
Close(l) ==
    /\ ~panicked
    /\ loops[l].pc = "close"
    /\ \E ch \in LoadQuit(l) :
         IF ch = 0 \/ chans[ch].closed
         THEN /\ panicked' = TRUE
              /\ loops' = [loops EXCEPT ![l].pc = "panic"]
              /\ UNCHANGED chans
         ELSE /\ chans' = [chans EXCEPT ![ch].closed = TRUE, ![ch].closer = l]
              /\ loops' = [loops EXCEPT ![l].pc = "done", ![l].q = ch]
              /\ UNCHANGED panicked
    /\ UNCHANGED <<Hostport, Hostname, Port, Interval, Notifier, quit, NetworkIsReachable,
                   calls, life, nticks>>

\* what one poll cycle met: whether net.Interfaces() failed, the result of
\* hasInterfaceUp, and the fate of the dial ("none": canConnect not called)
Cycle(err, up, dialOK) ==
    [err |-> err, up |-> up,
     dial |-> IF ~up THEN "none" ELSE IF dialOK THEN "ok" ELSE "fail"]

\* a debounce test that reports only the change to reachable
ChangedToUp(currentStatus, isActive) == isActive /\ currentStatus # 1

\* the debounce test of run: is the notifier to be called for this outcome?
ChangedAlways(currentStatus, isActive) == TRUE
Changed(currentStatus, isActive) ==
    IF ~isActive THEN currentStatus # 0 ELSE currentStatus # 1

\* a probe that dials whatever hasInterfaceUp returned
ProbeAlwaysDials(l) ==
    /\ ~panicked
    /\ loops[l].pc = "probe"
    /\ \E err \in BOOLEAN, ifaces \in IfaceLists, dialOK \in BOOLEAN :
         LET c     == loops[l].c
             up    == hasInterfaceUp(err, ifaces)
             addr  == Normalise(Hostport[c])
             act   == up /\ dialOK
             fire  == Changed(loops[l].currentStatus, act)
         IN  /\ Hostport' = [Hostport EXCEPT ![c] = addr]
             /\ \E ch \in LoadQuit(l) :
                  loops' = [loops EXCEPT
                      ![l].isActive = act,
                      ![l].outs  = Log(@, act),
                      ![l].cycles = Log(@, Cycle(err, up, dialOK)),
                      ![l].dials = Log(@, addr),
                      ![l].pc    = IF fire THEN "notify" ELSE "select",
                      ![l].q     = IF fire THEN @ ELSE ch]
    /\ UNCHANGED <<Hostname, Port, Interval, Notifier, quit, chans,
                   NetworkIsReachable, calls, life, nticks, panicked>>

\* case <-t.C: hasInterfaceUp, canConnect (which normalises c.Hostport and
\* dials it), and the comparison with currentStatus; when nothing is to be
\* notified the loop is back at its select
Probe(l) ==
    /\ ~panicked
    /\ loops[l].pc = "probe"
    /\ \E err \in BOOLEAN, ifaces \in IfaceLists, dialOK \in BOOLEAN :
         LET c     == loops[l].c
             up    == hasInterfaceUp(err, ifaces)
             addr  == Normalise(Hostport[c])
             act   == IF up THEN dialOK ELSE FALSE
             fire  == Changed(loops[l].currentStatus, act)
         IN  /\ Hostport' = IF up THEN [Hostport EXCEPT ![c] = addr]
                            ELSE Hostport
             /\ \E ch \in LoadQuit(l) :
                  loops' = [loops EXCEPT
                      ![l].isActive = act,
                      ![l].outs  = Log(@, act),
                      ![l].cycles = Log(@, Cycle(err, up, dialOK)),
                      ![l].dials = IF up THEN Log(@, addr) ELSE @,
                      ![l].pc    = IF fire THEN "notify" ELSE "select",
                      ![l].q     = IF fire THEN @ ELSE ch]
    /\ UNCHANGED <<Hostname, Port, Interval, Notifier, quit, chans,
                   NetworkIsReachable, calls, life, nticks, panicked>>

\* c.Notifier(isActive); currentStatus = 0 or 1; back at the select.
\* Calling a nil Notifier panics.
Notify(l) ==
    /\ ~panicked
    /\ loops[l].pc = "notify"
    /\ LET c == loops[l].c
           a == loops[l].isActive
       IN  IF Notifier[c] = "nil"
           THEN /\ panicked' = TRUE
                /\ loops' = [loops EXCEPT ![l].pc = "panic"]
                /\ UNCHANGED NetworkIsReachable
           ELSE /\ NetworkIsReachable' =
                      IF Notifier[c] = "flag" THEN a ELSE NetworkIsReachable
                /\ \E ch \in LoadQuit(l) :
                     loops' = [loops EXCEPT
                         ![l].notes = Log(@, [at |-> Len(loops[l].outs),
                                              val |-> a]),
                         ![l].currentStatus = IF a THEN 1 ELSE 0,
                         ![l].pc = "select",
                         ![l].q  = ch]
                /\ UNCHANGED panicked
    /\ UNCHANGED <<Hostport, Hostname, Port, Interval, Notifier, quit, chans, calls, life,
                   nticks>>

\* ------------------------------------------------------------ specification
Users == Checkers \ {"singleton"}

Next ==
    \/ \E c \in Users : CallCheckerStart(c)
    \/ \E c \in Users : CallCheckerStop(c)
    \/ \E h \in Targets : Start(h)
    \/ Stop
    \/ \E k \in 1..Len(calls) : StopReset(k)
    \/ \E k \in 1..Len(calls) : SendPanic(k)
    \/ \E l \in 1..Len(loops) : RunInit(l)
    \/ \E l \in 1..Len(loops) : Tick(l)
    \/ \E l \in 1..Len(loops) : RecvTick(l)
    \/ \E l \in 1..Len(loops), k \in 1..Len(calls) : RecvQuit(l, k)
    \/ \E l \in 1..Len(loops) : RecvClosed(l)
    \/ \E l \in 1..Len(loops) : Close(l)
    \/ \E l \in 1..Len(loops) : Probe(l)
    \/ \E l \in 1..Len(loops) : Notify(l)

Spec == Init /\ [][Next]_vars

\* ----------------------------------------- the package as unnamed/part_000
\* Checker has Hostname and Port; Checker.Start spawns singleton.run(); run
\* has no Interval default; canConnect dials c.Hostname+c.Port.

\* func (c *Checker) Start() of part_000
CheckerStart000(c) ==
    /\ Port'  = [Port EXCEPT ![c] = IF @ = <<>> THEN <<":", "8", "0">> ELSE @]
    /\ chans' = Append(chans, MakeChan(c))
    /\ quit'  = [quit EXCEPT ![c] = Len(chans) + 1]
    /\ loops' = Append(loops, NewLoop(SpawnSingleton(c), c, Len(chans) + 1))
    /\ life'  = [life EXCEPT ![c] = OnStart(@)]

CallCheckerStart000(c) ==
    /\ ~panicked
    /\ Len(loops) < MaxStarts
    /\ UNCHANGED <<Hostport, Hostname, Interval, Notifier>>
    /\ CheckerStart000(c)
    /\ UNCHANGED <<NetworkIsReachable, calls, nticks, panicked>>

\* func Start(hostname string) of part_000; net.SplitHostPort fails when
\* hostname has no port
Start000(hostname) ==
    /\ ~panicked
    /\ Len(loops) < MaxStarts
    /\ life["singleton"] \in {"NotStarted", "Stopped"}
    /\ Hostname' = [Hostname EXCEPT !["singleton"] =
                        IF LastColon(hostname) = 0 THEN hostname
                        ELSE DialHost(hostname)]
    /\ Interval' = [Interval EXCEPT !["singleton"] = DefaultInterval]
    /\ Notifier' = [Notifier EXCEPT !["singleton"] = "flag"]
    /\ UNCHANGED Hostport
    /\ chans' = Append(chans, MakeChan("singleton"))
    /\ quit'  = [quit EXCEPT !["singleton"] = Len(chans) + 1]
    /\ loops' = Append(loops, NewLoop("singleton", "singleton", Len(chans) + 1))
    /\ life'  = [life EXCEPT !["singleton"] = OnStart(@)]
    /\ Port'  = [Port EXCEPT !["singleton"] =
                        IF LastColon(hostname) = 0 THEN <<":", "8", "0">>
                        ELSE <<":">> \o DialPort(hostname)]
    /\ UNCHANGED <<NetworkIsReachable, calls, nticks, panicked>>

\* run() of part_000 up to its first select: time.NewTicker panics on a
\* non-positive interval
RunInit000(l) ==
    /\ ~panicked
    /\ loops[l].pc = "go"
    /\ IF Interval[loops[l].c] <= 0
       THEN /\ panicked' = TRUE
            /\ loops' = [loops EXCEPT ![l].pc = "panic"]
       ELSE /\ \E ch \in LoadQuit(l) :
                 loops' = [loops EXCEPT ![l].pc = "select",
                                        ![l].currentStatus = StatusUnknown,
                                        ![l].ticker = "on", ![l].q = ch]
            /\ UNCHANGED panicked
    /\ UNCHANGED <<Hostport, Hostname, Port, Interval, Notifier, quit, chans,
                   NetworkIsReachable, calls, life, nticks>>

\* case <-t.C of part_000
Probe000(l) ==
    /\ ~panicked
    /\ loops[l].pc = "probe"
    /\ \E err \in BOOLEAN, ifaces \in IfaceLists, dialOK \in BOOLEAN :
         LET c     == loops[l].c
             up    == hasInterfaceUp(err, ifaces)
             addr  == Hostname[c] \o Port[c]
             act   == IF up THEN dialOK ELSE FALSE
             fire  == Changed(loops[l].currentStatus, act)
         IN  \E ch \in LoadQuit(l) :
                  loops' = [loops EXCEPT
                      ![l].isActive = act,
                      ![l].outs  = Log(@, act),
                      ![l].cycles = Log(@, Cycle(err, up, dialOK)),
                      ![l].dials = IF up THEN Log(@, addr) ELSE @,
                      ![l].pc    = IF fire THEN "notify" ELSE "select",
                      ![l].q     = IF fire THEN @ ELSE ch]
    /\ UNCHANGED <<Hostport, Hostname, Port, Interval, Notifier, quit, chans,
                   NetworkIsReachable, calls, life, nticks, panicked>>

Next000 ==
    \/ \E c \in Users : CallCheckerStart000(c)
    \/ \E c \in Users : CallCheckerStop(c)
    \/ \E h \in Targets : Start000(h)
    \/ Stop
    \/ \E k \in 1..Len(calls) : StopReset(k)
    \/ \E k \in 1..Len(calls) : SendPanic(k)
    \/ \E l \in 1..Len(loops) : RunInit000(l)
    \/ \E l \in 1..Len(loops) : Tick(l)
    \/ \E l \in 1..Len(loops) : RecvTick(l)
    \/ \E l \in 1..Len(loops), k \in 1..Len(calls) : RecvQuit(l, k)
    \/ \E l \in 1..Len(loops) : RecvClosed(l)
    \/ \E l \in 1..Len(loops) : Close(l)
    \/ \E l \in 1..Len(loops) : Probe000(l)
    \/ \E l \in 1..Len(loops) : Notify(l)

Spec000 == Init /\ [][Next000]_vars

\* ----------------------- one Start on a user Checker, ticks without end
\* the caller's one c.Start()
StartOnce(c) ==
    /\ loops = <<>>
    /\ CallCheckerStart(c)

\* the ticker keeps delivering: a tick whenever t.C is empty
TickLive(l) ==
    /\ ~panicked
    /\ loops[l].ticker = "on"
    /\ ~loops[l].tick
    /\ loops' = [loops EXCEPT ![l].tick = TRUE]
    /\ UNCHANGED <<Hostport, Hostname, Port, Interval, Notifier, quit, chans,
                   NetworkIsReachable, calls, life, nticks, panicked>>

\* what the goroutine of a run does on its own: every probe and notifier
\* call returns
LoopStep(l) ==
    /\ l \in 1..Len(loops)
    /\ (RunInit(l) \/ Probe(l) \/ Notify(l) \/ Close(l))

\* the select of a run takes its quit case
QuitStep(l) ==
    /\ l \in 1..Len(loops)
    /\ \E k \in 1..Len(calls) : RecvQuit(l, k)

\* (with one Start no select finds its channel closed: RecvClosed is never
\* enabled and is left out)
NextLive ==
    \/ \E c \in Users : StartOnce(c)
    \/ \E c \in Users : CallCheckerStop(c)
    \/ \E k \in 1..Len(calls) : SendPanic(k)
    \/ \E l \in 1..Len(loops) : RunInit(l)
    \/ \E l \in 1..Len(loops) : TickLive(l)
    \/ \E l \in 1..Len(loops) : RecvTick(l)
    \/ \E l \in 1..Len(loops), k \in 1..Len(calls) : RecvQuit(l, k)
    \/ \E l \in 1..Len(loops) : Close(l)
    \/ \E l \in 1..Len(loops) : Probe(l)
    \/ \E l \in 1..Len(loops) : Notify(l)

\* goroutines are scheduled (weak fairness of their steps), and a select
\* that is ready to receive from c.quit again and again takes that case
\* (Go chooses uniformly among the ready cases)
SpecLive ==
    /\ Init
    /\ [][NextLive]_vars
    /\ \A l \in 1..MaxStarts : WF_vars(LoopStep(l)) /\ SF_vars(QuitStep(l))

\* ===================================================================== claims
Loops    == 1..Len(loops)
Calls    == 1..Len(calls)
Last(sq) == sq[Len(sq)]
Exited(l)   == loops[l].pc \in {"close", "done", "panic"}
Returned(k) == calls[k].pc \in {"reset", "returned"}

\* the notifier calls a debouncing observer makes for the outcomes outs[i..]
\* when the outcomes before i have been seen: the first outcome is delivered,
\* a later one when it differs from the last delivered
RECURSIVE Debounce(_, _, _)
Debounce(outs, i, last) ==
    IF i > Len(outs) THEN <<>>
    ELSE IF last = <<>> \/ <<outs[i]>> # last
         THEN <<[at |-> i, val |-> outs[i]]>> \o Debounce(outs, i + 1, <<outs[i]>>)
         ELSE Debounce(outs, i + 1, last)

\* the calls already made while the call for the latest outcome is pending
Delivered(l) ==
    LET want == Debounce(loops[l].outs, 1, <<>>)
    IN  IF loops[l].pc = "notify"
        THEN SubSeq(want, 1, Len(want) - 1)
        ELSE want

\* C1 (debounce): in every run the notifier calls made are exactly those of
\* the ticks whose probe outcome differs from the last delivered outcome (or
\* is the first of the run); a call is pending exactly when the latest
\* outcome differs; consecutive calls alternate between true and false.
C1_Debounce ==
    \A l \in Loops :
        /\ loops[l].notes = Delivered(l)
        /\ loops[l].pc = "notify" =>
              /\ loops[l].outs # <<>>
              /\ Last(Debounce(loops[l].outs, 1, <<>>)).at = Len(loops[l].outs)
              /\ loops[l].isActive = Last(loops[l].outs)
        /\ \A i \in 1..(Len(loops[l].notes) - 1) :
              loops[l].notes[i].val # loops[l].notes[i + 1].val

\* three probes, the first two alike and silent after the first, the third
\* different and notified
C1_Witness ==
    \E l \in Loops :
        /\ Len(loops[l].outs) = 3
        /\ loops[l].outs[1] = loops[l].outs[2]
        /\ loops[l].outs[3] # loops[l].outs[2]
        /\ loops[l].pc = "select"
        /\ Len(loops[l].notes) = 2
        /\ loops[l].notes[2].at = 3

\* C2 (initial notification): the first probe of a run leads to exactly one
\* notifier call, carrying that probe's outcome, whatever the outcome is.
C2_InitialNotification ==
    \A l \in Loops :
        Len(loops[l].outs) >= 1 =>
            IF Len(loops[l].outs) = 1 /\ loops[l].pc = "notify"
            THEN loops[l].notes = <<>> /\ loops[l].isActive = loops[l].outs[1]
            ELSE /\ Len(loops[l].notes) >= 1
                 /\ loops[l].notes[1] = [at |-> 1, val |-> loops[l].outs[1]]
                 /\ \A i \in 2..Len(loops[l].notes) : loops[l].notes[i].at > 1

\* a run whose first probe found the target unreachable has notified false
C2_Witness ==
    \E l \in Loops :
        /\ loops[l].outs = <<FALSE>>
        /\ loops[l].notes = <<[at |-> 1, val |-> FALSE]>>
        /\ loops[l].pc = "select"

\* the run a Stop call is paired with: the loop spawned by the Start that
\* made the channel the call sends on
RunOf(k) == {l \in Loops : loops[l].ch0 = calls[k].ch}

\* C3 (termination): once the one Stop of a Start has returned, the loop of
\* that run has left its select for good with its ticker stopped, and no
\* step adds a probe or a notifier call to that run.
C3_Termination ==
    [][\A k \in Calls :
          (Returned(k) /\ life[calls[k].c] # "Misused") =>
              \A l \in RunOf(k) :
                  /\ Exited(l)
                  /\ loops[l].ticker = "stopped"
                  /\ Exited(l)'
                  /\ loops'[l].outs = loops[l].outs
                  /\ loops'[l].notes = loops[l].notes]_vars

\* a Stop has returned to a caller that kept the contract, ticks are still
\* to come, and the stopped run had notified
C3_Witness ==
    \E k \in Calls :
        /\ Returned(k)
        /\ life[calls[k].c] # "Misused"
        /\ nticks < MaxTicks
        /\ \E l \in RunOf(k) : loops[l].notes # <<>> /\ loops[l].tick

\* C4 (facade default state): NetworkIsReachable is true before the first
\* facade Start, and after each facade Stop has returned until the next
\* facade Start.
C4_DefaultState ==
    life["singleton"] \in {"NotStarted", "Stopped"} => NetworkIsReachable

\* the facade is stopped and the last value its notifier wrote was false
C4_Witness ==
    /\ life["singleton"] = "Stopped"
    /\ \E l \in Loops :
          /\ loops[l].c = "singleton"
          /\ loops[l].notes # <<>>
          /\ ~Last(loops[l].notes).val
          /\ \A m \in Loops : m > l => loops[m].c # "singleton"

\* the run in progress for a caller that is between a Start and its Stop
CurrentRun(c) == {l \in Loops : loops[l].by = c /\ loops[l].ch0 = quit[c]}
Compliant == \A c \in Checkers : life[c] # "Misused"

\* C5 (restart): under contract-compliant use, between a Start and the Stop
\* paired with it the run of that Start is polling: it starts with status
\* unknown, it has not left its loop, and nothing has panicked; a run torn
\* down earlier does not end it.
C5_Restart ==
    Compliant =>
        /\ ~panicked
        /\ \A c \in Checkers :
              life[c] = "Running" =>
                  \A l \in CurrentRun(c) :
                      /\ ~Exited(l)
                      /\ loops[l].outs = <<>> => loops[l].currentStatus = StatusUnknown

\* C6 (own loop): the loop spawned by c.Start() runs on c, and a Stop on c
\* that has returned was received by a loop spawned by a Start on c.
C6_OwnLoop ==
    /\ \A l \in Loops : loops[l].c = loops[l].by
    /\ \A k \in Calls :
          Returned(k) => \E l \in Loops : loops[l].by = calls[k].c /\ Exited(l)

\* C7 (frame of the flag): a step of a loop spawned by Start on a Checker
\* other than the singleton, and a Start or Stop on such a Checker, leave
\* NetworkIsReachable unchanged.
C7_FlagFrame ==
    [][(\/ \E l \in Loops : loops[l].by # "singleton" /\ loops'[l] # loops[l]
        \/ \E c \in Users : life'[c] # life[c])
       => NetworkIsReachable' = NetworkIsReachable]_vars

\* host and port of a configured target string
CfgHost(cfg) == IF Contains(cfg, ":") THEN DialHost(cfg) ELSE cfg
CfgPort(cfg) == IF Contains(cfg, ":") THEN DialPort(cfg) ELSE <<"8", "0">>

\* C8 (target normalisation): every dial of a run goes to the configured host,
\* on port 80 when the configured string has no port and on the configured
\* port otherwise; all dials of a run use the same address, which is the
\* value of c.Hostport from the first dial on.
C8_TargetNormalisation ==
    \A l \in Loops :
        /\ \A i \in 1..Len(loops[l].dials) :
              /\ DialHost(loops[l].dials[i]) = CfgHost(loops[l].cfg)
              /\ DialPort(loops[l].dials[i]) = CfgPort(loops[l].cfg)
              /\ loops[l].dials[i] = loops[l].dials[1]
        /\ (loops[l].dials # <<>> /\ ~Exited(l)) =>
              Hostport[loops[l].c] = Last(loops[l].dials)

\* a run configured without a port has dialled twice
C8_Witness ==
    \E l \in Loops :
        /\ ~Contains(loops[l].cfg, ":")
        /\ Len(loops[l].dials) >= 2
        /\ DialPort(loops[l].dials[2]) = <<"8", "0">>

\* the runs of the Starts whose channel was overwritten with no Stop between
Overwritten == {a \in Loops : \E l \in Loops : loops[l].prev # 0
                                               /\ loops[a].ch0 = loops[l].prev}

\* C10 as claimed (double Start): the loop of the first Start never exits,
\* and as long as no more Stops than Starts were called nothing panics.
C10_DoubleStart ==
    /\ \A a \in Overwritten : ~Exited(a)
    /\ (Overwritten # {} /\ Len(calls) <= 1) => ~panicked

\* C10 as amended: the overwritten channel is leaked: no Stop ever sends on
\* it, neither loop of the double Start closes it (only the teardown of a run
\* stopped before can, see C5), and unless that has happened the first loop
\* does not exit while it is the channel the loop waits on.
C10_LeakedChannel ==
    \A l \in Loops :
        loops[l].prev # 0 =>
            /\ \A k \in Calls : calls[k].ch # loops[l].prev
            /\ chans[loops[l].prev].closed =>
                  /\ chans[loops[l].prev].closer # 0
                  /\ loops[chans[loops[l].prev].closer].ch0 < loops[l].prev
            /\ \A a \in Loops :
                  (loops[a].ch0 = loops[l].prev /\ loops[a].q = loops[l].prev
                   /\ Exited(a)) => chans[loops[l].prev].closed

\* after a double Start a Stop is blocked while the first loop waits on the
\* overwritten channel
C10_Witness ==
    \E l \in Loops, a \in Loops, k \in Calls :
        /\ loops[l].prev # 0
        /\ loops[a].ch0 = loops[l].prev
        /\ loops[a].pc = "select"
        /\ loops[a].q = loops[l].prev
        /\ calls[k].c = loops[l].by
        /\ calls[k].pc = "send"

\* Start and Stop have each been called exactly once on c
Once(c) ==
    /\ Cardinality({l \in Loops : loops[l].by = c}) = 1
    /\ Cardinality({k \in Calls : calls[k].c = c}) = 1

\* C9 (Stop liveness): when Start and then Stop have been called once on a
\* Checker, the Stop blocked in its send eventually returns and the loop
\* eventually has exited with its ticker stopped, also when a tick is pending
\* at every select; the obligation ends if the caller calls Start or Stop
\* on that Checker again.
C9_StopLiveness ==
    \A c \in Users :
        (Once(c) /\ life[c] = "Stopping")
        ~> \/ ~Once(c)
           \/ /\ \A k \in Calls : calls[k].c = c => Returned(k)
              /\ \A l \in Loops : loops[l].by = c =>
                    loops[l].pc = "done" /\ loops[l].ticker = "stopped"

\* the one Stop has returned and the loop has exited although a tick was
\* pending at its select, after it had probed
C9_Witness ==
    \E c \in Users :
        /\ Once(c)
        /\ life[c] = "Stopped"
        /\ \A k \in Calls : calls[k].c = c => Returned(k)
        /\ \A l \in Loops : loops[l].by = c =>
              /\ loops[l].pc = "done"
              /\ loops[l].tick
              /\ Len(loops[l].outs) >= 2

\* the Stop calls entered while c.quit was still nil
NilStops == {k \in Calls : calls[k].ch = 0}

\* C11 (Stop without Start): a Stop entered while the cancellation channel of
\* its Checker is nil stays blocked in its send in every later state,
\* whatever is called afterwards; entering it raises no panic, spawns no loop,
\* changes no loop and no flag, and no step makes such a call panic.
C11_StopBeforeStart ==
    [][/\ \A k \in 1..Len(calls') :
             calls'[k].ch = 0 =>
                 /\ calls'[k].pc = "send"
                 /\ k > Len(calls) =>
                       /\ loops' = loops
                       /\ panicked' = panicked
                       /\ ~panicked
                       /\ NetworkIsReachable' = NetworkIsReachable
                       /\ chans' = chans
       /\ \A k \in NilStops : calls'[k] = calls[k]]_vars

\* a Stop called before Start is still blocked after the Checker was started,
\* has probed and notified, and was stopped by another Stop
C11_Witness ==
    \E k \in NilStops, l \in Loops, j \in Calls :
        /\ calls[k].pc = "send"
        /\ loops[l].by = calls[k].c
        /\ loops[l].notes # <<>>
        /\ j > k
        /\ calls[j].c = calls[k].c
        /\ Returned(j)
        /\ loops[l].pc = "done"

\* the Checkers on which Start has been called exactly once
StartedOnce(c) == Cardinality({l \in Loops : loops[l].by = c}) = 1

\* C12 (double Stop): after one Start on a Checker, of all the Stops called on
\* it at most one returns (the one the loop received from); every other one
\* is blocked in its send or has panicked, and a Stop entered once the loop
\* has taken its quit case never returns.
C12_DoubleStop ==
    [][\A c \in Users :
          StartedOnce(c)' =>
              /\ Cardinality({k \in 1..Len(calls') :
                                 calls'[k].c = c /\ calls'[k].pc = "returned"}) <= 1
              /\ \A k \in 1..Len(calls') :
                    calls'[k].c = c => calls'[k].pc \in {"send", "returned", "panic"}
              /\ \A k \in Calls :
                    (calls[k].c = c /\ calls'[k].pc = "returned"
                     /\ calls[k].pc # "returned") =>
                        \A l \in Loops : loops[l].by = c => ~Exited(l)]_vars

\* one Start and two Stops: the first Stop has returned and the second,
\* entered after the loop had closed the channel, has panicked
C12_Witness ==
    \E c \in Users, j \in Calls, k \in Calls :
        /\ StartedOnce(c)
        /\ j < k
        /\ calls[j].c = c /\ calls[k].c = c
        /\ calls[j].pc = "returned"
        /\ calls[k].pc = "panic"
        /\ \A l \in Loops : loops[l].by = c => loops[l].pc = "done"

\* C13 (no probe without a tick): the loop spawned by Start has probed and
\* notified nothing; a probe begins only when the select of the run receives
\* a tick, a notifier call is made only after the probe of that tick, and a
\* tick is delivered only by a ticker that has not been stopped; so a run
\* whose Stop was accepted before any tick had fired has made no notifier
\* call and never makes one.
C13_NoTickNoNotification ==
    [][\A l \in 1..Len(loops') :
          IF l > Len(loops)
          THEN /\ loops'[l].pc = "go"
               /\ loops'[l].outs = <<>>
               /\ loops'[l].notes = <<>>
               /\ ~loops'[l].tick
          ELSE /\ (loops'[l].pc = "probe" /\ loops[l].pc # "probe") =>
                     (loops[l].pc = "select" /\ loops[l].tick /\ ~loops'[l].tick)
               /\ (loops'[l].outs # loops[l].outs) => loops[l].pc = "probe"
               /\ (loops'[l].pc = "notify" /\ loops[l].pc # "notify") =>
                     loops[l].pc = "probe"
               /\ (loops'[l].notes # loops[l].notes) => loops[l].pc = "notify"
               /\ (loops'[l].tick /\ ~loops[l].tick) => loops[l].ticker = "on"
               /\ (Exited(l) /\ loops[l].outs = <<>> /\ ~loops[l].tick) =>
                     /\ loops[l].notes = <<>>
                     /\ loops'[l].notes = <<>>
                     /\ loops'[l].outs = <<>>
                     /\ ~loops'[l].tick]_vars

\* a Stop was accepted before any tick had fired: the run has exited without
\* a notification while ticks are still to come
C13_Witness ==
    \E l \in Loops, k \in Calls :
        /\ calls[k].ch = loops[l].ch0
        /\ Returned(k)
        /\ loops[l].pc = "done"
        /\ nticks = 0
        /\ loops[l].notes = <<>>
        /\ ~loops[l].tick

\* C14 (cancellation channel discipline): under contract-compliant use no
\* closed channel is closed again or sent on (nothing panics), a channel is
\* closed only by the loop spawned by the Start that made it, and the channel
\* of a run whose Stop has returned and whose loop has returned is closed.
C14_ChannelDiscipline ==
    Compliant =>
        /\ ~panicked
        /\ \A ch \in 1..Len(chans) :
              chans[ch].closed =>
                  /\ chans[ch].closer # 0
                  /\ loops[chans[ch].closer].ch0 = ch
        /\ \A l \in Loops : loops[l].pc = "done" => chans[loops[l].ch0].closed

\* the probing runs of a Checker: in hasInterfaceUp / canConnect or in the
\* notifier
Busy(c) == {l \in Loops : loops[l].c = c /\ loops[l].pc \in {"probe", "notify"}}
Polling(c) == {l \in Loops : loops[l].c = c /\ ~Exited(l)}

\* C15 (serial probes, ordered notifications): under contract-compliant use a
\* Checker has at most one run that has not exited, so at most one probe or
\* notifier call of it is in progress; a notifier call is made only by a step
\* of the run itself, never by the step of a Start or a Stop; t.C holds at
\* most one tick, and a tick that arrives while the run is probing waits for
\* the next select instead of starting a second probe.
C15_SerialProbes ==
    [][/\ Compliant' =>
             \A c \in Checkers :
                 /\ Cardinality(Polling(c)') <= 1
                 /\ Cardinality(Busy(c)') <= 1
       /\ \A l \in Loops :
             /\ loops'[l].notes # loops[l].notes =>
                   /\ loops[l].pc = "notify"
                   /\ calls' = calls
                   /\ Len(loops') = Len(loops)
                   /\ Len(loops'[l].notes) = Len(loops[l].notes) + 1
                   /\ Last(loops'[l].notes).at = Len(loops[l].outs)
             /\ (loops[l].pc \in {"probe", "notify"} /\ loops'[l].tick
                 /\ ~loops[l].tick) =>
                   loops'[l].pc = loops[l].pc /\ loops'[l].outs = loops[l].outs]_vars

\* a tick has arrived while the run was probing, after an earlier probe of
\* the same run was notified
C15_Witness ==
    \E l \in Loops :
        /\ Compliant
        /\ loops[l].pc = "probe"
        /\ loops[l].tick
        /\ Len(loops[l].notes) >= 1

\* C16 (cooperative cancellation): a Stop returns only through the select of
\* a run (the loop is at its wait point in that step); a run that is probing
\* or in its notifier goes on to its notifier or its select, never to its
\* teardown; and under contract-compliant use the Stop paired with a run is
\* not returned while that run is probing or notifying.
C16_Cooperative ==
    [][/\ \A k \in Calls :
             (calls[k].pc = "send" /\ calls'[k].pc \in {"reset", "returned"}) =>
                 \E l \in Loops : /\ loops[l].pc = "select"
                                  /\ loops[l].q = calls[k].ch
                                  /\ loops'[l].pc = "close"
       /\ \A l \in Loops :
             loops[l].pc \in {"probe", "notify"} =>
                 /\ loops'[l].pc \in {"probe", "notify", "select", "panic"}
                 /\ loops'[l].ticker = "on"
       /\ Compliant' =>
             \A k \in 1..Len(calls'), l \in 1..Len(loops') :
                 (loops'[l].ch0 = calls'[k].ch
                  /\ loops'[l].pc \in {"probe", "notify"}) =>
                     calls'[k].pc \in {"send", "panic"}]_vars

\* a Stop is blocked in its send while the run it is paired with is in its
\* notifier with a further tick pending
C16_Witness ==
    \E k \in Calls, l \in Loops :
        /\ Compliant
        /\ calls[k].pc = "send"
        /\ loops[l].ch0 = calls[k].ch
        /\ loops[l].q = calls[k].ch
        /\ loops[l].pc = "notify"
        /\ loops[l].tick

\* some interface of the list is up and is not the loopback
SomeUp(ifaces) == \E i \in 1..Len(ifaces) : ~ifaces[i].lo /\ ifaces[i].up

\* the step is the probe of a tick by run l
ProbeStep(l) == loops[l].pc = "probe" /\ loops'[l].pc # "probe"

\* C17 (short-circuit): hasInterfaceUp is false whenever no non-loopback
\* interface is up, and a poll cycle in which it is false dials nothing,
\* leaves c.Hostport as it was and has the outcome false.
C17_ShortCircuit ==
    [][/\ \A ifaces \in IfaceLists :
             hasInterfaceUp(FALSE, ifaces) = SomeUp(ifaces)
       /\ \A l \in Loops :
             ProbeStep(l) =>
                 /\ Len(loops'[l].cycles) = Len(loops[l].cycles) + 1
                 /\ Len(loops'[l].outs) = Len(loops'[l].cycles)
                 /\ ~Last(loops'[l].cycles).up =>
                       /\ loops'[l].dials = loops[l].dials
                       /\ Hostport' = Hostport
                       /\ ~loops'[l].isActive
                       /\ ~Last(loops'[l].outs)]_vars

\* a run whose target has no port has gone through two cycles with no
\* interface up: nothing was dialled and the target is as configured
C17_Witness ==
    \E l \in Loops :
        /\ Len(loops[l].cycles) = 2
        /\ ~loops[l].cycles[1].up /\ ~loops[l].cycles[1].err
        /\ ~loops[l].cycles[2].up
        /\ loops[l].dials = <<>>
        /\ ~Contains(loops[l].cfg, ":")
        /\ Hostport[loops[l].c] = loops[l].cfg
        /\ loops[l].outs = <<FALSE, FALSE>>

\* C18 (fail-closed): a cycle whose interface enumeration failed, or whose
\* dial failed, has the outcome false; such a probe ends in the notifier or
\* back at the select with the ticker running, nothing panics, and no Stop
\* or Start of a caller is touched by it.
C18_FailClosed ==
    [][/\ \A ifaces \in IfaceLists : ~hasInterfaceUp(TRUE, ifaces)
       /\ \A l \in Loops :
             /\ \A i \in 1..Len(loops'[l].cycles) :
                   (loops'[l].cycles[i].err \/ loops'[l].cycles[i].dial = "fail")
                       => ~loops'[l].outs[i]
             /\ (ProbeStep(l) /\ (Last(loops'[l].cycles).err
                                  \/ Last(loops'[l].cycles).dial = "fail")) =>
                   /\ ~loops'[l].isActive
                   /\ loops'[l].pc \in {"notify", "select"}
                   /\ loops'[l].ticker = "on"
                   /\ ~panicked'
                   /\ calls' = calls
                   /\ life' = life]_vars

\* a run has probed again after a cycle whose enumeration failed and a cycle
\* whose dial failed
C18_Witness ==
    \E l \in Loops :
        /\ Len(loops[l].cycles) = 3
        /\ loops[l].cycles[1].err
        /\ loops[l].cycles[2].dial = "fail"
        /\ loops[l].cycles[3].dial = "ok"
        /\ loops[l].outs = <<FALSE, FALSE, TRUE>>
        /\ loops[l].pc = "select"

\* C19 (the flag follows the probes): while the facade is between its Start
\* and the return of its Stop, whenever the loop of that Start is at its
\* select after at least one probe, NetworkIsReachable is the outcome of its
\* latest probe; and a facade probe whose outcome differs from the flag
\* always goes on to the notifier.
C19_FlagTracksProbe ==
    /\ life["singleton"] \in {"Running", "Stopping"} =>
          \A l \in CurrentRun("singleton") :
              /\ (loops[l].pc = "select" /\ loops[l].outs # <<>>) =>
                    NetworkIsReachable = Last(loops[l].outs)
              /\ (loops[l].pc = "notify") =>
                    /\ loops[l].isActive = Last(loops[l].outs)
                    /\ Notifier["singleton"] = "flag"
    /\ \A l \in Loops : loops[l].c = "singleton" => loops[l].by = "singleton"

\* the facade's loop waits at its select after three probes, the last two
\* alike (the third was not notified) and unreachable
C19_Witness ==
    \E l \in CurrentRun("singleton") :
        /\ life["singleton"] = "Running"
        /\ loops[l].pc = "select"
        /\ loops[l].outs = <<TRUE, FALSE, FALSE>>
        /\ Len(loops[l].notes) = 2
        /\ ~NetworkIsReachable

\* ------------------- a Notifier that calls Stop on its own Checker
\* one Start on a user Checker whose Notifier may call c.Stop() before it
\* returns

InitNotifierStops ==
    /\ \E t \in Targets :
         /\ Hostport = [c \in Checkers |-> IF c = "singleton" THEN <<>> ELSE t]
         /\ Hostname = [c \in Checkers |-> IF c = "singleton" THEN <<>>
                                            ELSE IF Contains(t, ":")
                                                 THEN DialHost(t) ELSE t]
         /\ Port = [c \in Checkers |->
                      IF c = "singleton" \/ ~Contains(t, ":") THEN <<>>
                      ELSE <<":">> \o DialPort(t)]
    /\ Interval = [c \in Checkers |-> 0]
    /\ Notifier = [c \in Checkers |-> IF c = "singleton" THEN "nil" ELSE "stopper"]
    /\ quit = [c \in Checkers |-> 0]
    /\ chans = <<>>
    /\ NetworkIsReachable = TRUE
    /\ loops = <<>>
    /\ calls = <<>>
    /\ life = [c \in Checkers |-> "NotStarted"]
    /\ nticks = 0
    /\ panicked = FALSE

\* a Notifier whose Stop is taken by a channel with room for it: the call
\* returns and the notifier returns to the loop
NotifyStopBuffered(l) ==
    /\ ~panicked
    /\ loops[l].pc = "notify"
    /\ Notifier[loops[l].c] = "stopper"
    /\ calls' = Append(calls, [c |-> loops[l].c, ch |-> quit[loops[l].c],
                               facade |-> FALSE, pc |-> "returned"])
    /\ life' = [life EXCEPT ![loops[l].c] = OnReturn(OnStop(@))]
    /\ loops' = [loops EXCEPT
                    ![l].notes = Log(@, [at |-> Len(loops[l].outs),
                                         val |-> loops[l].isActive]),
                    ![l].currentStatus = IF loops[l].isActive THEN 1 ELSE 0,
                    ![l].pc = "select"]
    /\ UNCHANGED <<Hostport, Hostname, Port, Interval, Notifier, quit, chans,
                   NetworkIsReachable, nticks, panicked>>

\* c.Notifier(isActive) where the Notifier calls c.Stop(): the goroutine of
\* the run evaluates c.quit and blocks in the send of Stop, inside the
\* notifier call
NotifyStop(l) ==
    /\ ~panicked
    /\ loops[l].pc = "notify"
    /\ Notifier[loops[l].c] = "stopper"
    /\ CheckerStop(loops[l].c, FALSE)
    /\ loops' = [loops EXCEPT
                    ![l].notes = Log(@, [at |-> Len(loops[l].outs),
                                         val |-> loops[l].isActive]),
                    ![l].pc = "instop"]
    /\ UNCHANGED <<Hostport, Hostname, Port, Interval, Notifier, quit, chans,
                   NetworkIsReachable, nticks, panicked>>

\* (with one Start no select finds its channel closed: RecvClosed is never
\* enabled and is left out; Notify is a notifier call that returns without
\* calling Stop)
NextNotifierStops ==
    \/ \E c \in Users : StartOnce(c)
    \/ \E c \in Users : CallCheckerStop(c)
    \/ \E k \in 1..Len(calls) : SendPanic(k)
    \/ \E l \in 1..Len(loops) : RunInit(l)
    \/ \E l \in 1..Len(loops) : Tick(l)
    \/ \E l \in 1..Len(loops) : RecvTick(l)
    \/ \E l \in 1..Len(loops), k \in 1..Len(calls) : RecvQuit(l, k)
    \/ \E l \in 1..Len(loops) : Close(l)
    \/ \E l \in 1..Len(loops) : Probe(l)
    \/ \E l \in 1..Len(loops) : Notify(l)
    \/ \E l \in 1..Len(loops) : NotifyStop(l)

SpecNotifierStops == InitNotifierStops /\ [][NextNotifierStops]_vars

\* C20 (Stop from the Notifier): when the Notifier of the one run of a
\* Checker calls Stop, that Stop is blocked in its send on the channel of the
\* run and the run is inside the notifier; from then on the run makes no
\* step (no further probe, no notifier call, no teardown), its ticker is
\* never stopped, the channel is never closed, and no Stop blocked on that
\* channel ever returns or panics.
C20_NotifierStopDeadlock ==
    [][\A l \in Loops :
          /\ (loops[l].pc = "notify" /\ loops'[l] # loops[l]
              /\ Len(calls') > Len(calls)) =>
                 /\ loops'[l].pc = "instop"
                 /\ loops'[l].ticker = "on"
                 /\ Last(calls').pc = "send"
                 /\ Last(calls').ch = loops[l].ch0
                 /\ Last(calls').ch # 0
          /\ loops[l].pc = "instop" =>
                 /\ loops'[l].pc = "instop"
                 /\ loops'[l].outs = loops[l].outs
                 /\ loops'[l].notes = loops[l].notes
                 /\ loops[l].ticker = "on"
                 /\ loops'[l].ticker = "on"
                 /\ chans' = chans
                 /\ ~chans[loops[l].ch0].closed
                 /\ ~panicked'
                 /\ \E k \in Calls : calls[k].ch = loops[l].ch0 /\ calls[k].pc = "send"
                 /\ \A k \in Calls :
                       (calls[k].ch = loops[l].ch0 /\ calls[k].pc = "send") =>
                           calls'[k].pc = "send"]_vars

\* the run is blocked inside its notifier's Stop after an earlier notifier
\* call had returned, a tick is waiting in t.C that will never be received,
\* and a Stop called from outside is blocked as well
C20_Witness ==
    \E l \in Loops, j \in Calls, k \in Calls :
        /\ loops[l].pc = "instop"
        /\ Len(loops[l].notes) = 2
        /\ loops[l].tick
        /\ nticks = MaxTicks
        /\ j # k
        /\ calls[j].pc = "send" /\ calls[k].pc = "send"
        /\ calls[j].ch = loops[l].ch0 /\ calls[k].ch = loops[l].ch0

====
